---- MODULE Spec2Model ----
(***************************************************************************)
(* band-monitor: bandwhich log files are scanned, parsed into traffic      *)
(* records, aggregated into daily reports, mailed and archived.            *)
(*                                                                         *)
(* The module holds several specifications over one set of variables:      *)
(*   SpecParser      LogParser: the refresh-block tokenizer and the record *)
(*                   extractor applied to a log file written line by line; *)
(*   Spec            NetworkMonitor.generate_report: scan, filter, the day *)
(*                   tasks of ParallelProcessor.process_daily_logs, the    *)
(*                   final summary;                                        *)
(*   SpecProcessor   ParallelProcessor.process_daily_logs called with a    *)
(*                   processing function of the caller's own;              *)
(*   SpecAgg         ReportGenerator's aggregation functions applied to a  *)
(*                   list of traffic records;                              *)
(*   SpecScan        FileScanner.scan_files on a directory of files and    *)
(*                   the record list of a day assembled from its files;    *)
(*   SpecArchive     ArchiveManager.archive_logs on the log files of a     *)
(*                   date, with the file system failing at any statement,  *)
(*                   and extract_archive on the archive it returned;       *)
(*   SpecReportCheck FileScanner.check_report_exists on a report directory;*)
(*   SpecReport      ReportGenerator.generate_daily_report called with its *)
(*                   include_csv and compress arguments;                   *)
(*   SpecBatch       ParallelProcessor.process_in_batches;                 *)
(*   SpecPipeline    ProcessingPipeline: add_stage and run; with           *)
(*                   SpecPipelineFair the running thread keeps running.    *)
(* A specification leaves the variables of the others at their initial     *)
(* values.                                                                 *)
(***************************************************************************)
EXTENDS Integers, Sequences, FiniteSets, TLC

VARIABLES
    \* ---- LogParser (src/src/log_parser.py)
    fileLines,      \* the lines of the log file, in file order
    base_time,      \* file_info.base_time, seconds since midnight of the file's date
    pstate,         \* "writing" | "parsed_file" | "parsed_block" | "read_blocks"
    records,        \* what parse_file returned
    blockRecords,   \* what _parse_refresh_block returned
    refresh_blocks,         \* what _read_refresh_blocks yielded
    \* ---- the file system
    logDir,         \* the log files in log_dir
    reportDir,      \* the files in report_dir, each with the run that wrote it
    archiveDir,     \* the files in archive_dir
    mails,          \* the dates whose daily report mail was accepted by the server
    \* ---- ParallelProcessor (src/src/parallel_processor.py)
    _results,       \* self._results: date -> result
    _errors,        \* self._errors: date -> str(exception)
    date_files,     \* the date_files argument of the call in progress (or of the last call)
    futures,        \* date -> the Future of its task
    \* ---- NetworkMonitor.generate_report (src/src/main.py)
    pc,             \* "idle" | "pool": outside a call | inside the executor's with block
    run,            \* the number of calls started so far
    summaries,      \* the processing summaries written, oldest first
    startReports,   \* report_dir as it was when the call in progress (or the last call) began
    dayLog,         \* date -> what this call's day task did for the date
    \* ---- ReportGenerator (src/src/report_generator.py)
    df,             \* the traffic records handed to the aggregation, in input order
    astate,         \* "collecting" | "aggregated"
    aggregates,     \* what the aggregation functions returned for df
    \* ---- FileScanner and the record list of a day (src/src/file_scanner.py)
    spc,            \* "listing" | "scanned" | "assembled"
    all_records,    \* all_records of _process_single_day after its parse loop
    \* ---- ArchiveManager (src/src/archive_manager.py)
    archive_call,   \* how the last call of archive_logs ended
    \* ---- FileScanner.check_report_exists called on a directory
    exists_call,    \* what the last call of check_report_exists returned
    \* ---- ReportGenerator.generate_daily_report called on a record list
    report_call,    \* how the last call of generate_daily_report ended
    \* ---- ParallelProcessor.process_in_batches
    batch_call,     \* the call of process_in_batches in progress: its arguments and locals
    \* ---- ProcessingPipeline (src/src/parallel_processor.py)
    pipeline,       \* the pipeline: its stages, and the locals of run while it runs
    \* ---- ArchiveManager.extract_archive
    extract_call    \* what the last call of extract_archive returned

parserVars == <<fileLines, base_time, pstate, records, blockRecords, refresh_blocks>>
fsVars == <<logDir, reportDir, archiveDir, mails>>
procVars == <<_results, _errors, date_files, futures>>
monitorVars == <<pc, run, summaries, startReports, dayLog>>
aggVars == <<df, astate, aggregates>>
scanVars == <<spc, all_records>>
unitVars == <<archive_call, exists_call, report_call, batch_call>>
callVars == <<pipeline, extract_call>>
vars == <<fileLines, base_time, pstate, records, blockRecords, refresh_blocks,
          logDir, reportDir, archiveDir, mails,
          _results, _errors, date_files, futures,
          pc, run, summaries, startReports, dayLog,
          df, astate, aggregates,
          spc, all_records,
          archive_call, exists_call, report_call, batch_call,
          pipeline, extract_call>>

-----------------------------------------------------------------------------
(***************************************************************************)
(* Bounds.                                                                 *)
(***************************************************************************)
MaxLines == 4
MaxFilesPerDay == 2
MaxRuns == 2
MaxRecords == 3
MaxScanFiles == 3
MaxBlocks == 62
MaxArchiveCalls == 2
MaxReportCalls == 3
MaxItems == 3
MaxBatchSize == 2
MaxTopN == 2
MaxStages == 3

-----------------------------------------------------------------------------
(***************************************************************************)
(* Log lines.  A line is described by what the parser looks at: the prefix *)
(* its stripped text starts with, whether the rest of it matches the       *)
(* grammar of that prefix, and the pid and quoted name it then carries.    *)
(***************************************************************************)
MkLine(prefix, matches, pid, name) ==
    [prefix |-> prefix, matches |-> matches, pid |-> pid, name |-> name]

DelimiterLine == MkLine("Refreshing:", TRUE, 0, "")
NoTrafficLine == MkLine("<NO TRAFFIC>", TRUE, 0, "")
BlankLine     == MkLine("", TRUE, 0, "")
OtherLine     == MkLine("remote_address:", TRUE, 0, "")
\* a line that starts with the delimiter token and goes on: "Refreshing: again"
RefreshingTextLine == MkLine("Refreshing:", TRUE, 0, " again")

\* process: <PID> "NAME" up/down Bps: U/D connections: N
ProcessLines ==
    { MkLine("process:", TRUE, 1, "firefox"),
      MkLine("process:", TRUE, 1, "chrome"),
      MkLine("process:", TRUE, 2, "firefox") }

\* connection: <PID> <IFACE>:LPORT => REMOTE:RPORT (PROTO) up/down Bps: U/D process: "NAME"
ConnectionLines ==
    { MkLine("connection:", TRUE, 1, "<UNKNOWN>"),
      MkLine("connection:", TRUE, 2, "curl") }

\* "process: invalid format", "connection: <12345> <eth0>:54321 => 8.8.8.8:443 (tcp)"
MalformedLines ==
    { MkLine("process:", FALSE, 0, ""),
      MkLine("connection:", FALSE, 0, "") }

LineSet ==
    {DelimiterLine, RefreshingTextLine, NoTrafficLine, BlankLine, OtherLine}
        \cup ProcessLines \cup ConnectionLines \cup MalformedLines

\* 12:00:00 and 23:59:00
BaseTimes == {43200, 86340}

None == [none |-> TRUE]

-----------------------------------------------------------------------------
(***************************************************************************)
(* LogParser.                                                              *)
(***************************************************************************)

\* A line of the file together with its position in the file.  The position
\* is carried through the parser only to tell the records of equal lines
\* apart; no decision of the parser reads it.
Numbered(lines) == [i \in 1..Len(lines) |-> [no |-> i, line |-> lines[i]]]

\* line.startswith('Refreshing:')
StartsWithRefreshing(line) == line.prefix = "Refreshing:"

\* line.strip() is empty
IsBlankText(line) == line.prefix = ""

\* '<NO TRAFFIC>' in the text of the line
HasNoTraffic(line) == line.prefix = "<NO TRAFFIC>"

\* _read_refresh_blocks: the refresh_blocks yielded for the lines from position i on,
\* with `buffer` the lines accumulated so far.
RECURSIVE ReadBlocksFrom(_, _, _)
ReadBlocksFrom(nlines, i, buffer) ==
    IF i > Len(nlines)
    THEN IF buffer # <<>> THEN <<buffer>> ELSE <<>>
    ELSE IF StartsWithRefreshing(nlines[i].line)
         THEN IF buffer # <<>>
              THEN <<buffer>> \o ReadBlocksFrom(nlines, i + 1, <<>>)
              ELSE ReadBlocksFrom(nlines, i + 1, <<>>)
         ELSE ReadBlocksFrom(nlines, i + 1, Append(buffer, nlines[i]))

_read_refresh_blocks(nlines) == ReadBlocksFrom(nlines, 1, <<>>)

\* re.match(PROCESS_PATTERN, line)
_parse_process_line(line) ==
    IF line.prefix = "process:" /\ line.matches
    THEN [pid |-> line.pid, name |-> line.name]
    ELSE None

\* re.match(CONNECTION_PATTERN, line)
ParseConnectionLineLoose(line) ==
    IF line.prefix = "connection:"
    THEN [pid |-> line.pid, process_name |-> line.name]
    ELSE None

_parse_connection_line(line) ==
    IF line.prefix = "connection:" /\ line.matches
    THEN [pid |-> line.pid, process_name |-> line.name]
    ELSE None

\* process_map after the lines block[1..n]: process_map[process.pid] = process
RECURSIVE ProcessMapFirstWins(_, _)
ProcessMapFirstWins(block, n) ==
    IF n = 0 THEN [p \in {} |-> None]
    ELSE LET before == ProcessMapFirstWins(block, n - 1)
             line == block[n].line
             process == _parse_process_line(line)
         IN  IF line.prefix = "process:" /\ process # None
                /\ process.pid \notin DOMAIN before
             THEN [p \in DOMAIN before \cup {process.pid} |->
                      IF p = process.pid THEN process ELSE before[p]]
             ELSE before

RECURSIVE ProcessMap(_, _)
ProcessMap(block, n) ==
    IF n = 0 THEN [p \in {} |-> None]
    ELSE LET before == ProcessMap(block, n - 1)
             line == block[n].line
             process == _parse_process_line(line)
         IN  IF (~IsBlankText(line)) /\ line.prefix = "process:" /\ process # None
             THEN [p \in DOMAIN before \cup {process.pid} |->
                      IF p = process.pid THEN process ELSE before[p]]
             ELSE before

\* connections after the lines block[1..n], each with the position of its line
RECURSIVE Connections(_, _)
Connections(block, n) ==
    IF n = 0 THEN <<>>
    ELSE LET before == Connections(block, n - 1)
             line == block[n].line
             connection == _parse_connection_line(line)
         IN  IF (~IsBlankText(line)) /\ line.prefix # "process:"
                /\ line.prefix = "connection:" /\ connection # None
             THEN Append(before, [no |-> block[n].no, conn |-> connection])
             ELSE before

\* _parse_refresh_block(block, timestamp, source_file)
_parse_refresh_block(block, timestamp) ==
    LET process_map == ProcessMap(block, Len(block))
        connections == Connections(block, Len(block))
    IN  [i \in 1..Len(connections) |->
            LET c == connections[i]
                pid == c.conn.pid
            IN  [timestamp    |-> timestamp,
                 pid          |-> pid,
                 process_name |-> IF pid \in DOMAIN process_map
                                  THEN process_map[pid].name
                                  ELSE c.conn.process_name,
                 conn_name    |-> c.conn.process_name,
                 no           |-> c.no]]

\* not block.strip() or '<NO TRAFFIC>' in block
SkipBlock(block) ==
    (\A i \in 1..Len(block) : IsBlankText(block[i].line))
        \/ (\E i \in 1..Len(block) : HasNoTraffic(block[i].line))

\* file_info.base_time + timedelta(seconds=block_idx)
BlockTimestamp(base, block_idx) == base + block_idx

\* the loop of parse_file over enumerate(blocks), from block index idx on
RECURSIVE ParseBlocksFrom(_, _, _)
ParseBlocksFrom(blocks, idx, base) ==
    IF idx >= Len(blocks) THEN <<>>
    ELSE LET block == blocks[idx + 1]
         IN  IF SkipBlock(block)
             THEN ParseBlocksFrom(blocks, idx + 1, base)
             ELSE _parse_refresh_block(block, BlockTimestamp(base, idx))
                      \o ParseBlocksFrom(blocks, idx + 1, base)

parse_file(lines, base) ==
    ParseBlocksFrom(_read_refresh_blocks(Numbered(lines)), 0, base)

-----------------------------------------------------------------------------
(***************************************************************************)
(* The file system.  Two calendar days; a log file bandwhich_<date>_<HHMM> *)
(* is named by its date and the slot of its HHMM among the day's files,    *)
(* and is described by the number of traffic records parse_file extracts   *)
(* from it.  A file of report_dir carries the number of the call that      *)
(* wrote it (0: it was there before the first call).                       *)
(***************************************************************************)
Dates == {1, 2}
Slots == 1..MaxFilesPerDay
RecordCounts == {0, 1}

\* A file of log_dir: the shape of its name, the date and the time slot its
\* name gives, the number of records parse_file extracts from it, and whether
\* stat() and open() succeed on it.
NamedFile(name, d, s, n, readable) ==
    [name |-> name, date |-> d, slot |-> s, nrec |-> n, readable |-> readable]

\* bandwhich_<YYYYMMDD>_<HHMM>.log, readable
LogFile(d, s, n) == NamedFile("bandwhich_D_T.log", d, s, n, TRUE)
ReportFile(kind, d, r) == [kind |-> kind, date |-> d, run |-> r]
ArchiveFile(kind, d) == [kind |-> kind, date |-> d]

EmptyMap == [d \in {} |-> None]
Put(map, k, v) == [x \in DOMAIN map \cup {k} |-> IF x = k THEN v ELSE map[x]]

\* open(path, 'w'): the files of the given kinds are created or replaced
WriteFiles(dir, kinds, d, r) ==
    {f \in dir : ~(f.date = d /\ f.kind \in kinds)} \cup {ReportFile(k, d, r) : k \in kinds}

\* the settings the configuration gives when it does not say otherwise
report_include_csv == TRUE
compress_reports == FALSE
archive_enabled == TRUE
compress_format == "zip"
keep_original == FALSE

-----------------------------------------------------------------------------
(***************************************************************************)
(* FileScanner.                                                            *)
(***************************************************************************)

\* date_files[date_key].sort(key=lambda x: x.base_time)
RECURSIVE SortByBaseTime(_)
SortByBaseTime(S) ==
    IF S = {} THEN <<>>
    ELSE LET f == CHOOSE f \in S : \A g \in S : f.slot <= g.slot
         IN  <<f>> \o SortByBaseTime(S \ {f})

\* log_dir.glob('bandwhich_*.log')
Globbed(dir) == {f \in dir : f.name # "notes_D_T.txt"}

\* re.match(FILENAME_PATTERN, file_path.name): the pattern is matched at the
\* start of the name and need not reach its end
MatchesFilenamePattern(f) ==
    f.name \in {"bandwhich_D_T.log", "bandwhich_D_T.log.old.log",
                "bandwhich_baddate_T.log", "bandwhich_D_badtime.log"}

\* _analyze_file(file_path): None when the name does not match, when strptime
\* rejects the date or the time, and when stat() or the MD5 read raises
_analyze_file(f) ==
    IF ~MatchesFilenamePattern(f) THEN None
    ELSE IF f.name \in {"bandwhich_baddate_T.log", "bandwhich_D_badtime.log"} THEN None
    ELSE IF ~f.readable THEN None
    ELSE f

scan_files(dir) ==
    LET infos == {f \in Globbed(dir) : _analyze_file(f) # None}
    IN  [d \in {f.date : f \in infos} |-> SortByBaseTime({f \in infos : f.date = d})]

\* report_<date>.json, report_<date>_*.json, summary_<date>.json
CheckReportNever(d, dir) == FALSE

check_report_exists(d, dir) ==
    \E f \in dir : f.date = d /\ f.kind \in {"report_json", "report_suffixed_json", "summary_json"}

-----------------------------------------------------------------------------
(***************************************************************************)
(* ReportGenerator.generate_daily_report and the reports it writes.  The   *)
(* record list is described here by its length; the aggregation functions  *)
(* themselves are modelled further down.                                   *)
(***************************************************************************)

\* what the three summary functions return for a non-empty frame
ProcessSummaryType == "DataFrame"     \* summary.reset_index()
RemoteSummaryType == "DataFrame"      \* summary.reset_index()
TimeSummaryType == "dict"             \* {'hourly': hourly_summary}

\* obj.to_dict exists
HasToDict(type) == type = "DataFrame"

_save_detailed_report(dir, d, r, parquet_ok) ==
    LET kinds == {"report_json", "report_csv"}
                     \cup (IF parquet_ok THEN {"report_parquet"} ELSE {})
    IN  [files |-> kinds, dir |-> WriteFiles(dir, kinds, d, r)]

\* summary_data is built before summary_<date>.json is opened:
\* process_summary.to_dict(...), remote_summary.to_dict(...), time_summary.to_dict()
_generate_summary_report(dir, d, r) ==
    IF /\ HasToDict(ProcessSummaryType)
       /\ HasToDict(RemoteSummaryType)
       /\ HasToDict(TimeSummaryType)
    THEN [outcome |-> "returned", exc |-> "",
          files |-> {"summary_json", "summary_csv"},
          dir |-> WriteFiles(dir, {"summary_json", "summary_csv"}, d, r)]
    ELSE [outcome |-> "raised", exc |-> "AttributeError", files |-> {}, dir |-> dir]

_generate_statistics_report(dir, d, r) ==
    [files |-> {"stats_json"}, dir |-> WriteFiles(dir, {"stats_json"}, d, r)]

\* generate_daily_report(date_key, records, include_csv, compress) with
\* len(records) = n, called in call r; no statement reads include_csv
generate_daily_report(dir, d, n, r, parquet_ok, include_csv, compress) ==
    IF n = 0
    THEN [outcome |-> "returned", exc |-> "", files |-> {}, dir |-> dir]
    ELSE LET detail == _save_detailed_report(dir, d, r, parquet_ok)
             summary == _generate_summary_report(detail.dir, d, r)
         IN  IF summary.outcome = "raised"
             THEN [outcome |-> "raised", exc |-> summary.exc, files |-> {},
                   dir |-> summary.dir]
             ELSE LET stats == _generate_statistics_report(summary.dir, d, r)
                      all_files == detail.files \cup summary.files \cup stats.files
                  IN  IF compress
                      THEN [outcome |-> "returned", exc |-> "",
                            files |-> all_files \cup {"reports_zip"},
                            dir |-> WriteFiles(stats.dir, {"reports_zip"}, d, r)]
                      ELSE [outcome |-> "returned", exc |-> "",
                            files |-> all_files, dir |-> stats.dir]

-----------------------------------------------------------------------------
(***************************************************************************)
(* EmailSender.send_daily_report and ArchiveManager.archive_logs, as the   *)
(* day task sees them: the mail is accepted or not, the archive is written *)
(* or not.                                                                 *)
(***************************************************************************)
send_daily_report(sent, d, mail_ok) ==
    [email_sent |-> mail_ok, mails |-> IF mail_ok THEN sent \cup {d} ELSE sent]

Range(seq) == {seq[i] : i \in 1..Len(seq)}

\* the format argument, and the statement of archive_logs at which the file
\* system fails ("none": nowhere): opening the archive, writing a member to
\* it, the stat() calls of the metadata, opening the metadata file, the
\* stat() of the final log message
ArchiveFormats == {"zip", "tar.gz", "rar"}
ArchiveFaults == {"none", "open", "write", "metadata", "save", "stat"}

ArchiveName(format) == IF format = "zip" THEN "logs.zip" ELSE "logs.tar.gz"

\* the try block of archive_logs: the exception it ends with ("": none) and
\* the directories as it leaves them
ArchiveAttempt(adir, ldir, d, files, format, fault) ==
    LET archive  == ArchiveFile(ArchiveName(format), d)
        metadata == ArchiveFile("metadata", d)
        cleaned  == IF keep_original THEN ldir ELSE ldir \ Range(files)
    IN  CASE format \notin {"zip", "tar.gz"} ->
               [exc |-> "ValueError", archiveDir |-> adir, logDir |-> ldir]
          [] format \in {"zip", "tar.gz"} /\ fault = "open" ->
               [exc |-> "OSError", archiveDir |-> adir, logDir |-> ldir]
          [] format \in {"zip", "tar.gz"} /\ fault \in {"write", "metadata", "save"} ->
               [exc |-> "OSError", archiveDir |-> adir \cup {archive}, logDir |-> ldir]
          [] format \in {"zip", "tar.gz"} /\ fault = "stat" ->
               [exc |-> "OSError", archiveDir |-> adir \cup {archive, metadata},
                logDir |-> cleaned]
          [] OTHER ->
               [exc |-> "", archiveDir |-> adir \cup {archive, metadata},
                logDir |-> cleaned]

\* archive_logs without its except clause
ArchiveLogsUnguarded(adir, ldir, d, files, format, fault) ==
    IF files = <<>>
    THEN [outcome |-> "returned", archive_path |-> "None",
          archiveDir |-> adir, logDir |-> ldir]
    ELSE LET try == ArchiveAttempt(adir, ldir, d, files, format, fault)
         IN  [outcome |-> IF try.exc = "" THEN "returned" ELSE "raised",
              archive_path |-> IF try.exc = "" THEN ArchiveName(format) ELSE try.exc,
              archiveDir |-> try.archiveDir, logDir |-> try.logDir]

archive_logs(adir, ldir, d, files, format, fault) ==
    IF files = <<>>
    THEN [outcome |-> "returned", archive_path |-> "None",
          archiveDir |-> adir, logDir |-> ldir]
    ELSE LET try == ArchiveAttempt(adir, ldir, d, files, format, fault)
         IN  [outcome |-> "returned",
              archive_path |-> IF try.exc = "" THEN ArchiveName(format) ELSE "None",
              archiveDir |-> try.archiveDir, logDir |-> try.logDir]

-----------------------------------------------------------------------------
(***************************************************************************)
(* NetworkMonitor._process_single_day.                                     *)
(***************************************************************************)
RECURSIVE SumRecords(_)
SumRecords(files) ==
    IF files = <<>> THEN 0 ELSE Head(files).nrec + SumRecords(Tail(files))

\* what a day task did: whether the parse loop ran to its end, how
\* generate_daily_report ended ("none": it was not called) and what it returned,
\* whether the mail was sent, whether the archive was written, and the log
\* files the archiver deleted
NoDayLog == [parsed |-> FALSE, report |-> "none", artifacts |-> {},
             email_sent |-> FALSE, archived |-> FALSE, removed |-> {}]

Failure(d, error) == [date |-> d, success |-> FALSE, error |-> error]

\* an except clause that also clears the day's log files away
DayFailedAndCleared(d, error, log, rdir) ==
    [result |-> Failure(d, error), log |-> log, reportDir |-> rdir,
     logDir |-> {f \in logDir : f.date # d}, archiveDir |-> archiveDir,
     mails |-> mails]

\* the except clause of _process_single_day: the result of a failed day;
\* nothing else is touched
DayFailed(d, error, log, rdir) ==
    [result |-> Failure(d, error), log |-> log, reportDir |-> rdir,
     logDir |-> logDir, archiveDir |-> archiveDir, mails |-> mails]

_process_single_day(d, files, r, mail_ok, archive_ok, parquet_ok) ==
    IF \E i \in 1..Len(files) : files[i] \notin logDir
    THEN \* open(file_info.path) raises; the except clause of the day takes it
         DayFailed(d, "FileNotFoundError", NoDayLog, reportDir)
    ELSE LET n == SumRecords(files)
         IN  IF n = 0
             THEN DayFailed(d, "no valid records",
                            [NoDayLog EXCEPT !.parsed = TRUE], reportDir)
             ELSE LET rep == generate_daily_report(reportDir, d, n, r, parquet_ok,
                                                   report_include_csv,
                                                   compress_reports)
                      log == [NoDayLog EXCEPT !.parsed = TRUE,
                                              !.report = rep.outcome,
                                              !.artifacts = rep.files]
                  IN  IF rep.outcome = "raised"
                      THEN DayFailed(d, rep.exc, log, rep.dir)
                      ELSE LET mail == send_daily_report(mails, d, mail_ok)
                               arch == IF archive_enabled
                                       THEN archive_logs(archiveDir, logDir, d, files,
                                                         compress_format,
                                                         IF archive_ok THEN "none"
                                                                       ELSE "write")
                                       ELSE [archive_path |-> "None",
                                             archiveDir |-> archiveDir,
                                             logDir |-> logDir]
                           IN  [result |-> [date |-> d, success |-> TRUE,
                                            records_count |-> n,
                                            report_files |-> rep.files,
                                            email_sent |-> mail.email_sent,
                                            archive_path |-> arch.archive_path,
                                            files_processed |-> Len(files)],
                                log |-> [log EXCEPT
                                            !.email_sent = mail.email_sent,
                                            !.archived = arch.archive_path # "None",
                                            !.removed = logDir \ arch.logDir],
                                reportDir |-> rep.dir,
                                logDir |-> arch.logDir,
                                archiveDir |-> arch.archiveDir,
                                mails |-> mail.mails]

-----------------------------------------------------------------------------
(***************************************************************************)
(* ParallelProcessor.process_daily_logs and NetworkMonitor.generate_report.*)
(* A day task touches only the files of its own date and its own local     *)
(* variables, so it is one step of its worker thread; the collection of a  *)
(* finished future is a step of the calling thread.                        *)
(***************************************************************************)
NoFuture == [state |-> "none", kind |-> "", value |-> None]
Pending == [state |-> "pending", kind |-> "", value |-> None]

\* the dates _filter_dates lets through: all of them when date_filter is
\* falsy, else the dates the filter matches
DateFilters == SUBSET Dates

MonitorIdle ==
    /\ logDir = {}
    /\ reportDir = {}
    /\ archiveDir = {}
    /\ mails = {}
    /\ _results = EmptyMap
    /\ _errors = EmptyMap
    /\ date_files = EmptyMap
    /\ futures = [d \in Dates |-> NoFuture]
    /\ pc = "idle"
    /\ run = 0
    /\ summaries = <<>>
    /\ startReports = {}
    /\ dayLog = [d \in Dates |-> NoDayLog]

ParserIdle ==
    /\ fileLines = <<>>
    /\ base_time = 43200
    /\ pstate = "writing"
    /\ records = <<>>
    /\ blockRecords = <<>>
    /\ refresh_blocks = <<>>

AggIdle ==
    /\ df = <<>>
    /\ astate = "collecting"
    /\ aggregates = None

ScanIdle ==
    /\ spc = "listing"
    /\ all_records = <<>>

NoCall == [outcome |-> "none", calls |-> 0]

\* ProcessingPipeline(): no stages; run has not been called
NewPipeline == [state |-> "building", stages |-> <<>>, executed |-> {},
                context |-> {}, pos |-> 0, calls |-> <<>>]

\* no call of process_in_batches yet
NoBatchCall == [state |-> "idle", items |-> <<>>, batch_size |-> 1, i |-> 0,
                futures |-> <<>>, batch_results |-> <<>>, results |-> <<>>]

UnitIdle ==
    /\ archive_call = NoCall
    /\ exists_call = NoCall
    /\ report_call = NoCall
    /\ batch_call = NoBatchCall
    /\ pipeline = NewPipeline
    /\ extract_call = NoCall

\* a new bandwhich log file appears in log_dir
AddLogFile ==
    /\ pc = "idle"
    /\ \E d \in Dates, s \in Slots, n \in RecordCounts :
          /\ \A f \in logDir : ~(f.date = d /\ f.slot = s)
          /\ logDir' = logDir \cup {LogFile(d, s, n)}
    /\ UNCHANGED <<reportDir, archiveDir, mails, procVars, monitorVars, parserVars, aggVars, scanVars, unitVars, callVars>>

\* a log file is removed from log_dir while a call is in progress
LogFileVanishes ==
    /\ pc = "pool"
    /\ \E f \in logDir : logDir' = logDir \ {f}
    /\ UNCHANGED <<reportDir, archiveDir, mails, procVars, monitorVars, parserVars, aggVars, scanVars, unitVars, callVars>>

\* the program is started again: NetworkMonitor.__init__ builds a new
\* ParallelProcessor
NewMonitor ==
    /\ pc = "idle"
    /\ run > 0
    /\ DOMAIN date_files # {}
    /\ _results' = EmptyMap
    /\ _errors' = EmptyMap
    /\ date_files' = EmptyMap
    /\ futures' = [d \in Dates |-> NoFuture]
    /\ UNCHANGED <<fsVars, monitorVars, parserVars, aggVars, scanVars, unitVars, callVars>>

\* generate_report(date_filter), up to the submission of the day tasks
BeginRun ==
    /\ pc = "idle"
    /\ run < MaxRuns
    /\ \E date_filter \in DateFilters :
          LET scanned == scan_files(logDir)
              filtered == {d \in DOMAIN scanned : d \in date_filter}
              wanted == {d \in filtered : ~check_report_exists(d, reportDir)}
          IN  /\ run' = run + 1
              /\ startReports' = reportDir
              /\ dayLog' = [d \in Dates |-> NoDayLog]
              /\ IF DOMAIN scanned = {} \/ wanted = {}
                 THEN /\ pc' = "idle"
                      /\ UNCHANGED <<date_files, futures>>
                 ELSE /\ pc' = "pool"
                      /\ date_files' = [d \in wanted |-> scanned[d]]
                      /\ futures' = [d \in Dates |->
                                        IF d \in wanted THEN Pending ELSE NoFuture]
    /\ UNCHANGED <<fsVars, _results, _errors, summaries, parserVars, aggVars, scanVars, unitVars, callVars>>

\* a worker runs _process_single_date(date_key, files, self._process_single_day)
RunDayTask(d) ==
    /\ pc = "pool"
    /\ futures[d].state = "pending"
    /\ \E mail_ok, archive_ok, parquet_ok \in BOOLEAN :
          LET out == _process_single_day(d, date_files[d], run,
                                         mail_ok, archive_ok, parquet_ok)
          IN  /\ futures' = [futures EXCEPT ![d] =
                                [state |-> "done", kind |-> "returned",
                                 value |-> out.result]]
              /\ dayLog' = [dayLog EXCEPT ![d] = out.log]
              /\ reportDir' = out.reportDir
              /\ logDir' = out.logDir
              /\ archiveDir' = out.archiveDir
              /\ mails' = out.mails
    /\ UNCHANGED <<_results, _errors, date_files, pc, run, summaries,
                   startReports, parserVars, aggVars, scanVars, unitVars, callVars>>

\* as_completed hands the calling thread a finished future
Collect(d) ==
    /\ pc = "pool"
    /\ futures[d].state = "done"
    /\ IF futures[d].kind = "returned"
       THEN /\ _results' = Put(_results, d, futures[d].value)
            /\ UNCHANGED _errors
       ELSE /\ _errors' = Put(_errors, d, futures[d].value)
            /\ UNCHANGED _results
    /\ futures' = [futures EXCEPT ![d].state = "collected"]
    /\ UNCHANGED <<date_files, fsVars, monitorVars, parserVars, aggVars, scanVars, unitVars, callVars>>

\* the loop over as_completed left at the first collected future
SomeCollected == \E d \in DOMAIN date_files : futures[d].state = "collected"

\* the loop over as_completed(future_to_date) has handed out every future and
\* the with block has joined the workers
AllCollected == \A d \in DOMAIN date_files : futures[d].state = "collected"

\* NetworkMonitor._generate_summary_report(successful_dates, failed_dates)
ProcessingSummary(successful_dates, failed_dates, r) ==
    LET total == Cardinality(successful_dates) + Cardinality(failed_dates)
    IN  [run |-> r,
         successful_dates |-> successful_dates,
         failed_dates |-> failed_dates,
         total_processed |-> total,
         \* len(successful) / total * 100, as a fraction
         success_rate |-> IF total > 0
                          THEN <<Cardinality(successful_dates) * 100, total>>
                          ELSE <<0, 1>>]

\* the executor's with block ends, process_daily_logs returns self._results,
\* generate_report sorts its dates and writes the processing summary
FinishRun ==
    /\ pc = "pool"
    /\ AllCollected
    /\ LET results == _results
           successful_dates == {d \in DOMAIN results : results[d].success}
           failed_dates == DOMAIN results \ successful_dates
       IN  summaries' = Append(summaries,
                               ProcessingSummary(successful_dates, failed_dates, run))
    /\ pc' = "idle"
    /\ UNCHANGED <<fsVars, procVars, run, startReports, dayLog, parserVars, aggVars, scanVars, unitVars, callVars>>

MonitorInit ==
    /\ MonitorIdle
    /\ ParserIdle
    /\ AggIdle
    /\ ScanIdle
    /\ UnitIdle

Next ==
    \/ AddLogFile
    \/ LogFileVanishes
    \/ NewMonitor
    \/ BeginRun
    \/ \E d \in Dates : RunDayTask(d)
    \/ \E d \in Dates : Collect(d)
    \/ FinishRun

Spec == MonitorInit /\ [][Next]_vars

-----------------------------------------------------------------------------
(***************************************************************************)
(* ParallelProcessor.process_daily_logs called with a processing function  *)
(* of the caller's own: for each date the function returns a value or      *)
(* raises an exception with a message.                                     *)
(***************************************************************************)
ReturnValues == {"processed", "partial"}
Messages == {"processing failed"}

\* process_daily_logs(date_files, process_func): the tasks are submitted
CallProcessDailyLogs ==
    /\ pc = "idle"
    /\ run < MaxRuns
    /\ \E S \in SUBSET Dates :
          /\ date_files' = [d \in S |-> <<>>]
          /\ futures' = [d \in Dates |-> IF d \in S THEN Pending ELSE NoFuture]
    /\ pc' = "pool"
    /\ run' = run + 1
    /\ UNCHANGED <<_results, _errors, fsVars, summaries, startReports, dayLog,
                   parserVars, aggVars, scanVars, unitVars, callVars>>

\* a worker runs _process_single_date(date_key, files, process_func), which
\* hands on what process_func returns or raises
RunTask(d) ==
    /\ pc = "pool"
    /\ futures[d].state = "pending"
    /\ \E kind \in {"returned", "raised"} :
          \E v \in (IF kind = "returned" THEN ReturnValues ELSE Messages) :
              futures' = [futures EXCEPT ![d] =
                             [state |-> "done", kind |-> kind, value |-> v]]
    /\ UNCHANGED <<_results, _errors, date_files, fsVars, monitorVars, parserVars, aggVars, scanVars, unitVars, callVars>>

\* the executor's with block ends and process_daily_logs returns self._results
ReturnResults ==
    /\ pc = "pool"
    /\ AllCollected
    /\ pc' = "idle"
    /\ UNCHANGED <<procVars, fsVars, run, summaries, startReports, dayLog, parserVars, aggVars, scanVars, unitVars, callVars>>

ProcessorNext ==
    \/ CallProcessDailyLogs
    \/ \E d \in Dates : RunTask(d)
    \/ \E d \in Dates : Collect(d)
    \/ ReturnResults

SpecProcessor == MonitorInit /\ [][ProcessorNext]_vars

-----------------------------------------------------------------------------
(***************************************************************************)
(* The parser's specification: the monitor writes the log file line by     *)
(* line; the file is then parsed, or handed as one block to the extractor. *)
(***************************************************************************)
ParserInit ==
    /\ fileLines = <<>>
    /\ base_time \in BaseTimes
    /\ pstate = "writing"
    /\ records = <<>>
    /\ blockRecords = <<>>
    /\ refresh_blocks = <<>>
    /\ MonitorIdle
    /\ AggIdle
    /\ ScanIdle
    /\ UnitIdle

\* the monitor appends one line to the log file
WriteLine ==
    /\ pstate = "writing"
    /\ Len(fileLines) < MaxLines
    /\ \E l \in LineSet : fileLines' = Append(fileLines, l)
    /\ UNCHANGED <<base_time, pstate, records, blockRecords, refresh_blocks, fsVars, procVars, monitorVars, aggVars, scanVars, unitVars, callVars>>

\* LogParser.parse_file(file_info)
ParseFile ==
    /\ pstate = "writing"
    /\ records' = parse_file(fileLines, base_time)
    /\ pstate' = "parsed_file"
    /\ UNCHANGED <<fileLines, base_time, blockRecords, refresh_blocks, fsVars, procVars, monitorVars, aggVars, scanVars, unitVars, callVars>>

\* LogParser._parse_refresh_block(block, timestamp, source_file) on the text
\* of the file taken as one block
ParseRefreshBlock ==
    /\ pstate = "writing"
    /\ blockRecords' = _parse_refresh_block(Numbered(fileLines), base_time)
    /\ pstate' = "parsed_block"
    /\ UNCHANGED <<fileLines, base_time, records, refresh_blocks, fsVars, procVars, monitorVars, aggVars, scanVars, unitVars, callVars>>

\* list(LogParser._read_refresh_blocks(f)) on the open file
ReadRefreshBlocks ==
    /\ pstate = "writing"
    /\ refresh_blocks' = _read_refresh_blocks(Numbered(fileLines))
    /\ pstate' = "read_blocks"
    /\ UNCHANGED <<fileLines, base_time, records, blockRecords, fsVars, procVars,
                   monitorVars, aggVars, scanVars, unitVars, callVars>>

ParserNext == WriteLine \/ ParseFile \/ ParseRefreshBlock \/ ReadRefreshBlocks

SpecParser == ParserInit /\ [][ParserNext]_vars

-----------------------------------------------------------------------------
(***************************************************************************)
(* ReportGenerator's aggregation (src/src/report_generator.py).  A         *)
(* DataFrame is the sequence of its rows; the index label of a row is its  *)
(* position in the input list, counted from 0.  A float is kept as the     *)
(* exact fraction <<numerator, denominator>>, so round(2) changes nothing  *)
(* that two equal fractions could differ in; NaN is 0/0.                   *)
(***************************************************************************)
ProcessNames == {"chrome", "firefox"}
RemoteAddresses == {"1.1.1.1", "example.com"}
IpAddresses == {"1.1.1.1"}
Protocols == {"tcp", "udp"}
Rates == {0, 100}
Hours == {10, 11}

\* a TrafficRecord as a DataFrame row; hour is the hour of its timestamp
TrafficRecord(p, a, proto, up, h) ==
    [process_name |-> p, pid |-> IF p = "chrome" THEN 1 ELSE 2,
     remote_address |-> a, protocol |-> proto,
     local_port |-> IF proto = "tcp" THEN 443 ELSE 53,
     upload_bps |-> up, download_bps |-> 50, hour |-> h]

TrafficRecords ==
    {TrafficRecord(p, a, proto, up, h) :
        p \in ProcessNames, a \in RemoteAddresses, proto \in Protocols,
        up \in Rates, h \in Hours}

\* Python's order of the strings above
Lex ==
    ("chrome" :> 1) @@ ("firefox" :> 2) @@ ("1.1.1.1" :> 1) @@
    ("example.com" :> 2) @@ ("tcp" :> 1) @@ ("udp" :> 2)

Before(column, a, b) ==
    IF column \in {"local_port", "hour", "pid", "upload_bps", "download_bps"}
    THEN a < b
    ELSE Lex[a] < Lex[b]

NaN == <<0, 0>>
Frac(n, d) == <<n, d>>

\* the rows of a frame with their index labels
Rows(frame) == [i \in 1..Len(frame) |-> [label |-> i - 1, row |-> frame[i]]]

Values(rows, column) == {rows[i].row[column] : i \in 1..Len(rows)}

RECURSIVE SortedKeys(_, _)
SortedKeys(S, column) ==
    IF S = {} THEN <<>>
    ELSE LET m == CHOOSE x \in S : \A y \in S \ {x} : Before(column, x, y)
         IN  <<m>> \o SortedKeys(S \ {m}, column)

\* df.groupby(column): the groups in sorted key order, each with its rows in
\* frame order
groupby(frame, column) ==
    LET keys == SortedKeys(Values(Rows(frame), column), column)
    IN  [k \in 1..Len(keys) |->
            [key |-> keys[k],
             rows |-> SelectSeq(Rows(frame), LAMBDA r : r.row[column] = keys[k])]]

RECURSIVE sum(_, _)
sum(rows, column) ==
    IF rows = <<>> THEN 0
    ELSE Head(rows).row[column] + sum(Tail(rows), column)

RECURSIVE SumOfSquares(_, _)
SumOfSquares(rows, column) ==
    IF rows = <<>> THEN 0
    ELSE Head(rows).row[column] * Head(rows).row[column]
         + SumOfSquares(Tail(rows), column)

mean(rows, column) == Frac(sum(rows, column), Len(rows))

max(rows, column) ==
    CHOOSE x \in Values(rows, column) : \A y \in Values(rows, column) : y <= x

\* the square of the sample standard deviation (ddof = 1)
std(rows, column) ==
    IF Len(rows) = 1 THEN NaN
    ELSE Frac(Len(rows) * SumOfSquares(rows, column)
                  - sum(rows, column) * sum(rows, column),
              Len(rows) * (Len(rows) - 1))

nunique(rows, column) == Cardinality(Values(rows, column))

\* x.mode()[0]: mode() returns the most frequent values sorted
ModeFirst(rows, column) ==
    LET count(v) == Cardinality({i \in 1..Len(rows) : rows[i].row[column] = v})
        modes == {v \in Values(rows, column) :
                     \A w \in Values(rows, column) : count(w) <= count(v)}
    IN  SortedKeys(modes, column)[1]

\* part / total * 100
Pct(part, total) == IF total = 0 THEN NaN ELSE Frac(part * 100, total)

_calculate_process_summary(frame) ==
    IF frame = <<>> THEN <<>>
    ELSE LET groups == groupby(frame, "process_name")
             total_upload == sum(Rows(frame), "upload_bps")
             total_download == sum(Rows(frame), "download_bps")
         IN  [k \in 1..Len(groups) |->
                 LET g == groups[k].rows
                 IN  [process_name |-> groups[k].key,
                      upload_sum |-> sum(g, "upload_bps"),
                      upload_mean |-> mean(g, "upload_bps"),
                      upload_max |-> max(g, "upload_bps"),
                      upload_std |-> std(g, "upload_bps"),
                      download_sum |-> sum(g, "download_bps"),
                      download_mean |-> mean(g, "download_bps"),
                      download_max |-> max(g, "download_bps"),
                      download_std |-> std(g, "download_bps"),
                      unique_pids |-> nunique(g, "pid"),
                      unique_remotes |-> nunique(g, "remote_address"),
                      upload_pct |-> Pct(sum(g, "upload_bps"), total_upload),
                      download_pct |-> Pct(sum(g, "download_bps"), total_download)]]

_is_ip_address(address) == address \in IpAddresses

_calculate_remote_summary(frame) ==
    IF frame = <<>> THEN <<>>
    ELSE LET groups == groupby(frame, "remote_address")
         IN  [k \in 1..Len(groups) |->
                 LET g == groups[k].rows
                 IN  [remote_address |-> groups[k].key,
                      upload_sum |-> sum(g, "upload_bps"),
                      upload_mean |-> mean(g, "upload_bps"),
                      upload_max |-> max(g, "upload_bps"),
                      download_sum |-> sum(g, "download_bps"),
                      download_mean |-> mean(g, "download_bps"),
                      download_max |-> max(g, "download_bps"),
                      unique_processes |-> nunique(g, "process_name"),
                      common_protocol |-> ModeFirst(g, "protocol"),
                      is_ip |-> _is_ip_address(groups[k].key)]]

\* a dict: key -> value
ToDict(series) ==
    [key \in {series[k].item : k \in 1..Len(series)} |->
        (CHOOSE e \in {series[k] : k \in 1..Len(series)} : e.item = key).value]

_calculate_time_summary(frame) ==
    IF frame = <<>> THEN EmptyMap
    ELSE LET groups == groupby(frame, "hour")
             Column(F(_)) ==
                 ToDict([k \in 1..Len(groups) |->
                            [item |-> groups[k].key, value |-> F(groups[k].rows)]])
         IN  [hourly |->
                 [upload_bps |-> Column(LAMBDA g : sum(g, "upload_bps")),
                  download_bps |-> Column(LAMBDA g : sum(g, "download_bps")),
                  process_name |-> Column(LAMBDA g : nunique(g, "process_name"))]]

\* the metric arguments _get_top_items is called with
ColumnMetric(column) == [kind |-> "column", column |-> column]
CountMetric == [kind |-> "count", column |-> ""]
\* lambda x: x['upload_bps'] + x['download_bps']: one value per row of the group
TrafficPerRow == [kind |-> "callable", column |-> "", returns |-> "Series"]
\* total_traffic(group): group["upload_bps"].sum() + group["download_bps"].sum()
TotalTraffic == [kind |-> "callable", column |-> "", returns |-> "scalar"]

RECURSIVE Concat(_)
Concat(seqs) == IF seqs = <<>> THEN <<>> ELSE Head(seqs) \o Concat(Tail(seqs))

Remove(seq, i) == SubSeq(seq, 1, i - 1) \o SubSeq(seq, i + 1, Len(seq))

\* Series.nlargest(n), keep = 'first'
RECURSIVE nlargest(_, _)
nlargest(series, n) ==
    IF n = 0 \/ series = <<>> THEN <<>>
    ELSE LET i == CHOOSE i \in 1..Len(series) :
                      /\ \A j \in 1..Len(series) : series[j].value <= series[i].value
                      /\ \A j \in 1..(i - 1) : series[j].value < series[i].value
         IN  <<series[i]>> \o nlargest(Remove(series, i), n - 1)

\* df.groupby(group_by).apply(metric).  For a metric that returns one number
\* for a group the result is a Series indexed by the group key.  For a metric
\* that returns a Series indexed by the rows of the group: with two groups or
\* more the results are concatenated into one Series indexed by (group key,
\* row label); with one group they are stacked into a DataFrame with one row.
\* levels is the number of levels of the index.
GroupByApply(frame, group_by, metric) ==
    LET groups == groupby(frame, group_by)
    IN  IF metric.returns = "scalar"
        THEN [type |-> "Series", levels |-> 1,
              series |-> [k \in 1..Len(groups) |->
                             [item |-> groups[k].key,
                              value |-> sum(groups[k].rows, "upload_bps")
                                          + sum(groups[k].rows, "download_bps")]]]
        ELSE IF Len(groups) = 1
        THEN [type |-> "DataFrame", levels |-> 1, series |-> <<>>]
        ELSE [type |-> "Series", levels |-> 2,
              series |->
                 Concat([k \in 1..Len(groups) |->
                     [i \in 1..Len(groups[k].rows) |->
                         [item |-> <<groups[k].key, groups[k].rows[i].label>>,
                          value |-> groups[k].rows[i].row.upload_bps
                                      + groups[k].rows[i].row.download_bps]]])]

GroupBySize(frame, group_by) ==
    LET groups == groupby(frame, group_by)
    IN  [type |-> "Series", levels |-> 1,
         series |-> [k \in 1..Len(groups) |->
                        [item |-> groups[k].key, value |-> Len(groups[k].rows)]]]

GroupBySum(frame, group_by, column) ==
    LET groups == groupby(frame, group_by)
    IN  [type |-> "Series", levels |-> 1,
         series |-> [k \in 1..Len(groups) |->
                        [item |-> groups[k].key, value |-> sum(groups[k].rows, column)]]]

\* the grouped values _get_top_items ranks
Grouped(frame, group_by, metric) ==
    IF metric.kind = "callable" THEN GroupByApply(frame, group_by, metric)
    ELSE IF metric.kind = "count" THEN GroupBySize(frame, group_by)
    ELSE GroupBySum(frame, group_by, metric.column)

Raised(error) == [raised |-> error]

\* DataFrame.nlargest needs a columns argument: grouped.nlargest(top_n)
\* raises TypeError on a DataFrame
_get_top_items(frame, group_by, metric, top_n) ==
    IF frame = <<>> THEN <<>>
    ELSE LET grouped == Grouped(frame, group_by, metric)
         IN  IF grouped.type = "DataFrame" THEN Raised("TypeError")
             ELSE nlargest(grouped.series, top_n)

TopN == 10
DistributionHead == 20

RECURSIVE FirstSeen(_, _, _)
FirstSeen(frame, column, seen) ==
    IF frame = <<>> THEN <<>>
    ELSE IF Head(frame)[column] \in seen THEN FirstSeen(Tail(frame), column, seen)
    ELSE <<Head(frame)[column]>>
         \o FirstSeen(Tail(frame), column, seen \cup {Head(frame)[column]})

\* df[column].value_counts(): most frequent first, equal counts in the order
\* of first appearance
value_counts(frame, column) ==
    LET keys == FirstSeen(frame, column, {})
    IN  nlargest([k \in 1..Len(keys) |->
                     [item |-> keys[k],
                      value |-> Cardinality({i \in 1..Len(frame) :
                                                frame[i][column] = keys[k]})]],
                 Len(keys))

head(series, n) == SubSeq(series, 1, IF Len(series) < n THEN Len(series) ELSE n)

\* Series.idxmax(): the label of the first maximum
idxmax(grouped) == nlargest(grouped.series, 1)[1].item

\* the connection and process statistics of _generate_statistics_report
Statistics(frame) ==
    IF frame = <<>> THEN EmptyMap
    ELSE [total_connections |-> Len(frame),
          unique_ports |-> nunique(Rows(frame), "local_port"),
          ports_distribution |->
              ToDict(head(value_counts(frame, "local_port"), DistributionHead)),
          protocol_distribution |-> ToDict(value_counts(frame, "protocol")),
          total_processes |-> nunique(Rows(frame), "process_name"),
          process_distribution |->
              ToDict(head(value_counts(frame, "process_name"), DistributionHead)),
          process_with_most_connections |->
              idxmax(GroupBySize(frame, "process_name")),
          process_with_most_traffic |->
              idxmax(GroupBySum(frame, "process_name", "upload_bps"))]

\* the top_items of _generate_summary_report
TopItems(frame) ==
    [top_processes_by_upload |->
         _get_top_items(frame, "process_name", ColumnMetric("upload_bps"), TopN),
     top_processes_by_download |->
         _get_top_items(frame, "process_name", ColumnMetric("download_bps"), TopN),
     top_remotes_by_traffic |->
         _get_top_items(frame, "remote_address", TrafficPerRow, TopN),
     most_active_ports |->
         _get_top_items(frame, "local_port", CountMetric, TopN)]

\* _generate_summary_report(date_str, df): it has no guard for an empty frame.
\* summary_data is built first; a DataFrame made from an empty list has no
\* columns, so df['process_name'] raises KeyError; with rows, the to_dict calls
\* are reached
SummaryReport(frame) ==
    IF frame = <<>> THEN Raised("KeyError")
    ELSE IF ~(/\ HasToDict(ProcessSummaryType)
              /\ HasToDict(RemoteSummaryType)
              /\ HasToDict(TimeSummaryType))
    THEN Raised("AttributeError")
    ELSE [files |-> {"summary_json", "summary_csv"}]

\* _generate_statistics_report(date_str, df): {} for an empty frame
StatisticsReport(frame) ==
    IF frame = <<>> THEN EmptyMap ELSE [files |-> {"stats_json"}]

\* generate_daily_report(date_key, records): {} when not records
DailyReport(frame) ==
    IF frame = <<>> THEN EmptyMap
    ELSE IF SummaryReport(frame) \in {Raised("KeyError"), Raised("AttributeError")}
    THEN SummaryReport(frame)
    ELSE [files |-> {"report_json", "report_csv"} \cup SummaryReport(frame).files
                        \cup StatisticsReport(frame).files]

\* every aggregation applied to one frame
Aggregates(frame) ==
    [process_summary |-> _calculate_process_summary(frame),
     remote_summary |-> _calculate_remote_summary(frame),
     time_summary |-> _calculate_time_summary(frame),
     top_items |-> TopItems(frame),
     statistics |-> Statistics(frame),
     summary_report |-> SummaryReport(frame),
     statistics_report |-> StatisticsReport(frame),
     daily_report |-> DailyReport(frame)]

\* one more record is handed to the report generator
AddRecord ==
    /\ astate = "collecting"
    /\ Len(df) < MaxRecords
    /\ \E r \in TrafficRecords : df' = Append(df, r)
    /\ UNCHANGED <<astate, aggregates, parserVars, fsVars, procVars, monitorVars, scanVars, unitVars, callVars>>

\* the aggregation functions are applied to the records
Aggregate ==
    /\ astate = "collecting"
    /\ aggregates' = Aggregates(df)
    /\ astate' = "aggregated"
    /\ UNCHANGED <<df, parserVars, fsVars, procVars, monitorVars, scanVars, unitVars, callVars>>

AggNext == AddRecord \/ Aggregate

SpecAgg == MonitorInit /\ [][AggNext]_vars

-----------------------------------------------------------------------------
(***************************************************************************)
(* FileScanner.scan_files on a directory that also holds files with other  *)
(* names, and the record list _process_single_day assembles for one date   *)
(* from the scanned files.  A scanned file holds one refresh block per     *)
(* record, the first block at the start of the file.                       *)
(***************************************************************************)
SecondsPerMinute == 60

\* the numbers of refresh blocks a log file may hold
BlockCounts == {1, MaxBlocks}

\* the slot of a file named for 23:59, the last HHMM of a day
LastSlot == 12 * 60

\* the files that may be found in log_dir
ScanFileSet ==
    {NamedFile("bandwhich_D_T.log", d, t, n, readable) :
        d \in Dates, t \in Slots \cup {LastSlot}, n \in BlockCounts,
        readable \in BOOLEAN}
    \cup {NamedFile(name, 1, 1, 1, TRUE) :
            name \in {"bandwhich_D_T.log.old.log", "bandwhich_baddate_T.log",
                      "bandwhich_D_badtime.log", "bandwhich_backup.log",
                      "notes_D_T.txt"}}

FileName(f) == <<f.name, f.date, f.slot>>

\* base_time: the date with HHMM of the name; slot t is the minute 12:00 + (t - 1)
BaseTimeOf(f) == 43200 + SecondsPerMinute * (f.slot - 1)

\* parse_file(file_info): one record per block, timestamp base_time + block_idx
FileTimestamps(f) ==
    [i \in 1..f.nrec |->
        [timestamp |-> BlockTimestamp(BaseTimeOf(f), i - 1), file |-> FileName(f)]]

\* for file_info in files: all_records.extend(parse_file(file_info))
RECURSIVE ExtendAll(_)
ExtendAll(files) ==
    IF files = <<>> THEN <<>>
    ELSE FileTimestamps(Head(files)) \o ExtendAll(Tail(files))

\* a file is found in log_dir
CreateFile ==
    /\ spc = "listing"
    /\ Cardinality(logDir) < MaxScanFiles
    /\ \E f \in ScanFileSet :
          /\ \A g \in logDir : FileName(g) # FileName(f)
          /\ logDir' = logDir \cup {f}
    /\ UNCHANGED <<reportDir, archiveDir, mails, procVars, monitorVars, parserVars,
                   aggVars, scanVars, unitVars, callVars>>

\* date_files = self.file_scanner.scan_files()
ScanFiles ==
    /\ spc = "listing"
    /\ date_files' = scan_files(logDir)
    /\ spc' = "scanned"
    /\ UNCHANGED <<_results, _errors, futures, fsVars, monitorVars, parserVars,
                   aggVars, all_records, unitVars, callVars>>

\* the parse loop of _process_single_day(date_key, files)
AssembleDay(d) ==
    /\ spc = "scanned"
    /\ d \in DOMAIN date_files
    /\ all_records' = ExtendAll(date_files[d])
    /\ spc' = "assembled"
    /\ UNCHANGED <<procVars, fsVars, monitorVars, parserVars, aggVars, unitVars, callVars>>

ScanNext ==
    \/ CreateFile
    \/ ScanFiles
    \/ \E d \in Dates : AssembleDay(d)

SpecScan == MonitorInit /\ [][ScanNext]_vars

-----------------------------------------------------------------------------
(***************************************************************************)
(* ArchiveManager.archive_logs called on the log files of a date.          *)
(***************************************************************************)

\* archive_manager.archive_logs(date_key, log_files, format=...)
ArchiveLogs(d) ==
    /\ pc = "idle"
    /\ archive_call.calls < MaxArchiveCalls
    /\ \E chosen \in SUBSET {f \in logDir : f.date = d},
          format \in ArchiveFormats, fault \in ArchiveFaults :
          LET call == archive_logs(archiveDir, logDir, d, SortByBaseTime(chosen),
                                   format, fault)
          IN  /\ archive_call' = [calls |-> archive_call.calls + 1,
                                  outcome |-> call.outcome, value |-> call.archive_path,
                                  date |-> d, log_files |-> Cardinality(chosen),
                                  members |-> {FileName(f) : f \in chosen},
                                  format |-> format, fault |-> fault]
              /\ archiveDir' = call.archiveDir
              /\ logDir' = call.logDir
    /\ UNCHANGED <<reportDir, mails, procVars, monitorVars, parserVars, aggVars, scanVars,
                   exists_call, report_call, batch_call, callVars>>

\* Path(archive_path).suffix: what follows the last dot of the name
Suffix(archive_path) == IF archive_path = "logs.zip" THEN ".zip" ELSE ".gz"

\* extract_archive(archive_path, target_dir) on an archive with the given
\* members: the names of the extracted paths
extract_archive(archive_path, members) ==
    IF Suffix(archive_path) = ".zip" THEN members
    ELSE IF Suffix(archive_path) \in {".tar.gz", ".tgz"} THEN members
    ELSE {}

\* archive_manager.extract_archive(archive_path) on the archive the last call
\* of archive_logs returned
ExtractArchive ==
    /\ pc = "idle"
    /\ archive_call.outcome = "returned"
    /\ archive_call.value # "None"
    /\ extract_call' = [outcome |-> "returned", calls |-> 1,
                        archive_path |-> archive_call.value,
                        members |-> archive_call.members,
                        value |-> extract_archive(archive_call.value,
                                                  archive_call.members)]
    /\ UNCHANGED <<fsVars, procVars, monitorVars, parserVars, aggVars, scanVars,
                   unitVars, pipeline>>

ArchiveNext ==
    \/ AddLogFile
    \/ \E d \in Dates : ArchiveLogs(d)
    \/ ExtractArchive

SpecArchive == MonitorInit /\ [][ArchiveNext]_vars

-----------------------------------------------------------------------------
(***************************************************************************)
(* FileScanner.check_report_exists called on a directory that holds any    *)
(* of the files a report directory can hold.                               *)
(***************************************************************************)
\* report_<d>.json, report_<d>.csv, report_<d>_<suffix>.json,
\* summary_<d>.json, summary_<d>.csv, stats_<d>.json
ReportKinds == {"report_json", "report_csv", "report_suffixed_json",
                "summary_json", "summary_csv", "stats_json"}

\* a file appears in report_dir
PutReportFile ==
    /\ pc = "idle"
    /\ \E kind \in ReportKinds, d \in Dates :
          /\ ReportFile(kind, d, 0) \notin reportDir
          /\ reportDir' = reportDir \cup {ReportFile(kind, d, 0)}
    /\ UNCHANGED <<logDir, archiveDir, mails, procVars, monitorVars, parserVars,
                   aggVars, scanVars, unitVars, callVars>>

\* file_scanner.check_report_exists(date, report_dir)
CheckReportExists(d) ==
    /\ pc = "idle"
    /\ exists_call' = [outcome |-> "returned", calls |-> 1, date |-> d,
                       value |-> check_report_exists(d, reportDir)]
    /\ UNCHANGED <<fsVars, procVars, monitorVars, parserVars, aggVars, scanVars,
                   archive_call, report_call, batch_call, callVars>>

ReportCheckNext ==
    \/ PutReportFile
    \/ \E d \in Dates : CheckReportExists(d)

SpecReportCheck == MonitorInit /\ [][ReportCheckNext]_vars

-----------------------------------------------------------------------------
(***************************************************************************)
(* ReportGenerator.generate_daily_report called on a record list.          *)
(***************************************************************************)

\* report_generator.generate_daily_report(date_key, records, include_csv, compress)
GenerateDailyReport(d) ==
    /\ pc = "idle"
    /\ report_call.calls < MaxReportCalls
    /\ \E n \in RecordCounts, include_csv, compress, parquet_ok \in BOOLEAN :
          LET r == report_call.calls + 1
              call == generate_daily_report(reportDir, d, n, r, parquet_ok,
                                            include_csv, compress)
          IN  /\ report_call' = [calls |-> r, outcome |-> call.outcome,
                                 value |-> call.files, date |-> d, records |-> n,
                                 include_csv |-> include_csv, compress |-> compress]
              /\ reportDir' = call.dir
    /\ UNCHANGED <<logDir, archiveDir, mails, procVars, monitorVars, parserVars,
                   aggVars, scanVars, archive_call, exists_call, batch_call, callVars>>

ReportNext ==
    \/ \E d \in Dates : GenerateDailyReport(d)

SpecReport == MonitorInit /\ [][ReportNext]_vars

-----------------------------------------------------------------------------
(***************************************************************************)
(* ParallelProcessor.process_in_batches.  The items of a batch are         *)
(* submitted to a thread pool; a worker thread runs process_func on an     *)
(* item, the calling thread takes the futures from as_completed, which     *)
(* hands them out as they finish (and those already finished in the order  *)
(* of a set), and appends each result to the list of the batch.            *)
(***************************************************************************)
BatchItems == {"a", "b", "bad"}

\* the caller's process_func: it raises for "bad"
ProcessFuncRaises(item) == item = "bad"
process_func(item) == IF item = "a" THEN "A" ELSE "B"

ItemLists == UNION {[1..n -> BatchItems] : n \in 0..MaxItems}

\* items[i:i+batch_size], with i counted from 0
Slice(items, i, batch_size) ==
    [k \in 1..(IF Len(items) - i < batch_size THEN Len(items) - i ELSE batch_size)
        |-> items[i + k]]

\* process_in_batches(items, process_func, batch_size)
CallProcessInBatches ==
    /\ pc = "idle"
    /\ batch_call.state \in {"idle", "returned"}
    /\ \E items \in ItemLists, batch_size \in 1..MaxBatchSize :
          batch_call' = [NoBatchCall EXCEPT !.state = "loop", !.items = items,
                                            !.batch_size = batch_size]
    /\ UNCHANGED <<fsVars, procVars, monitorVars, parserVars, aggVars, scanVars,
                   archive_call, exists_call, report_call, callVars>>

\* _process_batch: futures = [executor.submit(process_func, item) for item in batch]
SubmitBatch ==
    /\ batch_call.state = "loop"
    /\ batch_call.i < Len(batch_call.items)
    /\ LET batch == Slice(batch_call.items, batch_call.i, batch_call.batch_size)
       IN  batch_call' = [batch_call EXCEPT
                             !.state = "batch",
                             !.futures = [k \in 1..Len(batch) |->
                                             [state |-> "pending", item |-> batch[k]]],
                             !.batch_results = <<>>]
    /\ UNCHANGED <<fsVars, procVars, monitorVars, parserVars, aggVars, scanVars,
                   archive_call, exists_call, report_call, callVars>>

\* a worker thread finishes process_func(item) for the k-th future
RunItem(k) ==
    /\ batch_call.state = "batch"
    /\ k \in 1..Len(batch_call.futures)
    /\ batch_call.futures[k].state = "pending"
    /\ batch_call' = [batch_call EXCEPT !.futures[k].state = "done"]
    /\ UNCHANGED <<fsVars, procVars, monitorVars, parserVars, aggVars, scanVars,
                   archive_call, exists_call, report_call, callVars>>

\* as_completed hands out the k-th future; results.append(future.result()),
\* or results.append(None) when the call raised
AppendResult(k) ==
    /\ batch_call.state = "batch"
    /\ k \in 1..Len(batch_call.futures)
    /\ batch_call.futures[k].state = "done"
    /\ LET item == batch_call.futures[k].item
           result == IF ProcessFuncRaises(item) THEN "None" ELSE process_func(item)
       IN  batch_call' = [batch_call EXCEPT
                             !.futures[k].state = "collected",
                             !.batch_results = Append(@, result)]
    /\ UNCHANGED <<fsVars, procVars, monitorVars, parserVars, aggVars, scanVars,
                   archive_call, exists_call, report_call, callVars>>

\* _process_batch returns; results.extend(batch_results)
ExtendResults ==
    /\ batch_call.state = "batch"
    /\ \A k \in 1..Len(batch_call.futures) : batch_call.futures[k].state = "collected"
    /\ batch_call' = [batch_call EXCEPT
                         !.state = "loop",
                         !.results = @ \o batch_call.batch_results,
                         !.i = @ + batch_call.batch_size]
    /\ UNCHANGED <<fsVars, procVars, monitorVars, parserVars, aggVars, scanVars,
                   archive_call, exists_call, report_call, callVars>>

\* the loop over the batches is over: return results
ReturnBatchResults ==
    /\ batch_call.state = "loop"
    /\ batch_call.i >= Len(batch_call.items)
    /\ batch_call' = [batch_call EXCEPT !.state = "returned"]
    /\ UNCHANGED <<fsVars, procVars, monitorVars, parserVars, aggVars, scanVars,
                   archive_call, exists_call, report_call, callVars>>

BatchNext ==
    \/ CallProcessInBatches
    \/ SubmitBatch
    \/ \E k \in 1..MaxBatchSize : RunItem(k)
    \/ \E k \in 1..MaxBatchSize : AppendResult(k)
    \/ ExtendResults
    \/ ReturnBatchResults

SpecBatch == MonitorInit /\ [][BatchNext]_vars

-----------------------------------------------------------------------------
(***************************************************************************)
(* ProcessingPipeline: stages are added, then run is called.  run is one   *)
(* thread; a step is the test of the while loop or one iteration of the    *)
(* for loop over the stages.  pos is 0 at the while test and k at the      *)
(* iteration for the k-th stage.  context is the set of stage names that   *)
(* are keys of self.context; calls lists the stage functions called, each  *)
(* with the context and the executed set it was called with.               *)
(***************************************************************************)
StageNames == {"stage1", "stage2", "stage3"}

\* a check that looks at the first dependency only
DepsMetFirstOnly(stage, executed) ==
    \E dep \in stage.depends_on : dep \in executed

\* all(dep in executed for dep in stage['depends_on'])
deps_met(stage, executed) ==
    \A dep \in stage.depends_on : dep \in executed

\* pipeline.add_stage(name, func, depends_on)
AddStage ==
    /\ pipeline.state = "building"
    /\ Len(pipeline.stages) < MaxStages
    /\ \E name \in StageNames, depends_on \in SUBSET StageNames :
          pipeline' = [pipeline EXCEPT
                          !.stages = Append(@, [name |-> name,
                                                depends_on |-> depends_on])]
    /\ UNCHANGED <<fsVars, procVars, monitorVars, parserVars, aggVars, scanVars,
                   unitVars, extract_call>>

\* pipeline.run(): executed = set()
RunPipeline ==
    /\ pipeline.state \in {"building", "returned"}
    /\ pipeline' = [pipeline EXCEPT !.state = "running", !.executed = {},
                                    !.pos = 0, !.calls = <<>>]
    /\ UNCHANGED <<fsVars, procVars, monitorVars, parserVars, aggVars, scanVars,
                   unitVars, extract_call>>

\* while len(executed) < len(self.stages): ... return self.context
WhileTest ==
    /\ pipeline.state = "running"
    /\ pipeline.pos = 0
    /\ IF Cardinality(pipeline.executed) < Len(pipeline.stages)
       THEN pipeline' = [pipeline EXCEPT !.pos = 1]
       ELSE pipeline' = [pipeline EXCEPT !.state = "returned"]
    /\ UNCHANGED <<fsVars, procVars, monitorVars, parserVars, aggVars, scanVars,
                   unitVars, extract_call>>

\* one iteration of for stage in self.stages
ForStage ==
    /\ pipeline.state = "running"
    /\ pipeline.pos \in 1..Len(pipeline.stages)
    /\ LET k == pipeline.pos
           stage == pipeline.stages[k]
           next == IF k = Len(pipeline.stages) THEN 0 ELSE k + 1
           call == [stage |-> k, name |-> stage.name, context |-> pipeline.context,
                    executed |-> pipeline.executed]
       IN  IF stage.name \in pipeline.executed
           THEN pipeline' = [pipeline EXCEPT !.pos = next]
           ELSE IF deps_met(stage, pipeline.executed) \/ stage.depends_on = {}
           THEN \E raises \in BOOLEAN :
                   IF raises
                   THEN pipeline' = [pipeline EXCEPT
                                        !.state = "raised",
                                        !.calls = Append(@, call)]
                   ELSE pipeline' = [pipeline EXCEPT
                                        !.context = @ \cup {stage.name},
                                        !.executed = @ \cup {stage.name},
                                        !.calls = Append(@, call),
                                        !.pos = next]
           ELSE pipeline' = [pipeline EXCEPT !.pos = next]
    /\ UNCHANGED <<fsVars, procVars, monitorVars, parserVars, aggVars, scanVars,
                   unitVars, extract_call>>

PipelineNext ==
    \/ AddStage
    \/ RunPipeline
    \/ WhileTest
    \/ ForStage

SpecPipeline == MonitorInit /\ [][PipelineNext]_vars

\* the thread that called run keeps running
SpecPipelineFair ==
    SpecPipeline /\ WF_vars(WhileTest) /\ WF_vars(ForStage)

-----------------------------------------------------------------------------
(***************************************************************************)
(* Properties of the parser.                                               *)
(***************************************************************************)
Max(S) == CHOOSE x \in S : \A y \in S : y <= x

\* the positions of the lines of the file at which the tokenizer ends a block
DelimiterPositions == {j \in 1..Len(fileLines) : StartsWithRefreshing(fileLines[j])}

\* the number of `Refreshing:` lines before position i
DelimsBefore(i) == Cardinality({j \in DelimiterPositions : j < i})

\* the positions that lie in the same block of the file as position i: no
\* `Refreshing:` line at or between the two
FileBlockOf(i) ==
    {j \in 1..Len(fileLines) :
        \A d \in DelimiterPositions : ~((d >= i /\ d <= j) \/ (d >= j /\ d <= i))}

ValidConnectionPositions == {j \in 1..Len(fileLines) : fileLines[j] \in ConnectionLines}

\* recs holds one record per valid connection line at the positions S, in
\* line order, each with a non-empty process name
OnePerConnection(recs, S) ==
    /\ Len(recs) = Cardinality(S)
    /\ \A k \in 1..Len(recs) : recs[k].no \in S /\ recs[k].process_name # ""
    /\ \A k \in 1..(Len(recs) - 1) : recs[k].no < recs[k + 1].no

\* the name the join policy gives the connection line at position i within
\* the block made of the positions S
JoinedName(S, i) ==
    LET procs == {j \in S : /\ fileLines[j] \in ProcessLines
                            /\ fileLines[j].pid = fileLines[i].pid}
    IN  IF procs = {} THEN fileLines[i].name ELSE fileLines[Max(procs)].name

\* a record without the position of its line
Data(r) == [timestamp |-> r.timestamp, pid |-> r.pid,
            process_name |-> r.process_name, conn_name |-> r.conn_name]
DataOf(recs) == [k \in 1..Len(recs) |-> Data(recs[k])]

IsWellFormed(l) == l \notin MalformedLines

\* C2 (as claimed): every record of the k-th block that follows a `Refreshing:`
\* line, k counted from 0 over all such blocks and not counting leading content,
\* carries the timestamp base time + k seconds.
C2_TimestampIsDelimiterOrdinal ==
    pstate = "parsed_file" =>
        \A k \in 1..Len(records) :
            DelimsBefore(records[k].no) >= 1 =>
                records[k].timestamp = base_time + (DelimsBefore(records[k].no) - 1)

\* C3 (as claimed): a block with N valid connection lines yields exactly N
\* records, one per connection line in line order, each with a non-empty process
\* name, both through _parse_refresh_block and through parse_file on a file that
\* holds the block after its `Refreshing:` line.
C3_OneRecordPerConnectionLine ==
    /\ pstate = "parsed_block" => OnePerConnection(blockRecords, ValidConnectionPositions)
    /\ (pstate = "parsed_file" /\ DelimiterPositions = {1}) =>
            OnePerConnection(records, ValidConnectionPositions)

\* C4: the process name of every record is the name of the last valid process
\* line with the record's pid in the record's own block, wherever that line
\* stands in the block, and the name on the connection line when the block has
\* none; the process lines of other blocks play no part.
C4_ProcessNameFromOwnBlock ==
    /\ pstate = "parsed_file" =>
          \A k \in 1..Len(records) :
              records[k].process_name = JoinedName(FileBlockOf(records[k].no), records[k].no)
    /\ pstate = "parsed_block" =>
          \A k \in 1..Len(blockRecords) :
              blockRecords[k].process_name
                  = JoinedName(1..Len(fileLines), blockRecords[k].no)

\* the positions of the lines of block b
PositionsOf(b) == {refresh_blocks[b][k].no : k \in 1..Len(refresh_blocks[b])}

\* C12 (as claimed): a line is a block delimiter exactly when it is the line
\* `Refreshing:`; every other line, one that starts with the token and goes
\* on included, is content of a block, and two such lines next to each other
\* are content of the same block.
C12_DelimiterIsTheExactLine ==
    pstate = "read_blocks" =>
        /\ \A i \in 1..Len(fileLines) :
               (fileLines[i] # DelimiterLine)
                   <=> (\E b \in 1..Len(refresh_blocks) : i \in PositionsOf(b))
        /\ \A i \in 1..(Len(fileLines) - 1) :
               (fileLines[i] # DelimiterLine /\ fileLines[i + 1] # DelimiterLine)
                   => \E b \in 1..Len(refresh_blocks) : {i, i + 1} \subseteq PositionsOf(b)

\* C4 witness: a parsed file with a record named by a process line that follows
\* its connection line, while another block holds a process line of the same pid
\* with another name.
C4_Witness ==
    /\ pstate = "parsed_file"
    /\ \E k \in 1..Len(records) :
          LET r == records[k]
          IN  /\ r.process_name # r.conn_name
              /\ \E j \in FileBlockOf(r.no) :
                    /\ j > r.no
                    /\ fileLines[j] \in ProcessLines
                    /\ fileLines[j].pid = r.pid
              /\ \E j \in (1..Len(fileLines)) \ FileBlockOf(r.no) :
                    /\ fileLines[j] \in ProcessLines
                    /\ fileLines[j].pid = r.pid
                    /\ fileLines[j].name # r.process_name

-----------------------------------------------------------------------------
(***************************************************************************)
(* Properties of generate_report and of the day tasks.                     *)
(***************************************************************************)
HasFile(dir, kind, d) == \E f \in dir : f.kind = kind /\ f.date = d
FilesOfDate(dir, d) == {f \in dir : f.date = d}

RECURSIVE ReadableRecords(_, _)
ReadableRecords(files, dir) ==
    IF files = <<>> THEN 0
    ELSE (IF Head(files) \in dir THEN Head(files).nrec ELSE 0)
             + ReadableRecords(Tail(files), dir)

\* C1 (as claimed): generate_daily_report on a non-empty record list returns
\* normally, and what it returns names report_<date>.json, summary_<date>.json
\* and stats_<date>.json, all of them written.
C1_DailyReportReturnsItsArtifacts ==
    \A d \in Dates :
        dayLog[d].report # "none" =>
            /\ dayLog[d].report = "returned"
            /\ \A kind \in {"report_json", "summary_json", "stats_json"} :
                  kind \in dayLog[d].artifacts /\ HasFile(reportDir, kind, d)

\* C5: a date whose report_<date>.json exists when generate_report is called
\* is not processed by the call: its files in report_dir stay as they were, its
\* log files are not parsed, no report is generated, no mail is sent, nothing is
\* archived and no log file of it is deleted.
C5_ReportedDateIsNotProcessedAgain ==
    \A d \in Dates :
        (run > 0 /\ HasFile(startReports, "report_json", d)) =>
            /\ FilesOfDate(reportDir, d) = FilesOfDate(startReports, d)
            /\ dayLog[d] = NoDayLog
            /\ (pc = "pool" => d \notin DOMAIN date_files)

\* C5 witness: a call has processed one date while the other date, which has
\* log files, had its report already.
C5_Witness ==
    /\ pc = "pool"
    /\ \E d, e \in Dates :
          /\ HasFile(startReports, "report_json", d)
          /\ \E f \in logDir : f.date = d /\ f.nrec > 0
          /\ dayLog[e].report # "none"

\* C8 (as claimed): when a file of the day cannot be opened, the day task skips
\* that file only: it does not end with the file's error, and when the files it
\* could read hold records it goes on to report them.
C8_UnreadableFileIsSkipped ==
    [][\A d \in Dates :
          (/\ pc = "pool"
           /\ futures[d].state = "pending"
           /\ futures'[d].state = "done"
           /\ \E i \in 1..Len(date_files[d]) : date_files[d][i] \notin logDir)
          => /\ futures'[d].value.success
                    \/ futures'[d].value.error # "FileNotFoundError"
             /\ ReadableRecords(date_files[d], logDir) > 0
                    => dayLog'[d].report # "none"]_vars

\* C9 (as claimed): every call of generate_report that has returned has written
\* a processing summary, and the summary of a call lists each date the call
\* attempted exactly once, as successful or as failed.
C9_EveryRunWritesASummary ==
    pc = "idle" =>
        /\ Len(summaries) = run
        /\ run > 0 =>
              LET summary == summaries[Len(summaries)]
              IN  \A d \in DOMAIN date_files :
                      (d \in summary.successful_dates) # (d \in summary.failed_dates)

\* C7 (as claimed): when process_daily_logs has returned, every task has run;
\* each submitted date whose function returned is in the results map with the
\* value returned, each whose function raised is in the errors map with the
\* message, and no submitted date is in both maps or in neither.
C7_EachDateInExactlyOneMap ==
    (pc = "idle" /\ run > 0) =>
        \A d \in DOMAIN date_files :
            /\ futures[d].state = "collected"
            /\ futures[d].kind = "returned" =>
                  d \in DOMAIN _results /\ _results[d] = futures[d].value
            /\ futures[d].kind = "raised" =>
                  d \in DOMAIN _errors /\ _errors[d] = futures[d].value
            /\ (d \in DOMAIN _results) # (d \in DOMAIN _errors)

-----------------------------------------------------------------------------
(***************************************************************************)
(* Properties of the aggregation.                                          *)
(***************************************************************************)
Permuted(frame, p) == [i \in 1..Len(frame) |-> frame[p[i]]]

\* C10: the aggregated output (process summary, remote summary with its
\* most frequent protocol, hourly summary, top-N rankings, frequency
\* distributions) is the same for every order of the same records.
C10_AggregationIgnoresInputOrder ==
    astate = "aggregated" =>
        \A p \in Permutations(1..Len(df)) :
            Aggregates(Permuted(df, p)) = aggregates

\* C11 (as claimed): every aggregation operation called with an empty record
\* set returns a defined empty result and does not raise: the process, remote
\* and hourly summaries, each top-N ranking, the summary report, the
\* statistics report and the daily report.
C11_EmptyInputGivesEmptyResult ==
    (astate = "aggregated" /\ df = <<>>) =>
        /\ aggregates.process_summary = <<>>
        /\ aggregates.remote_summary = <<>>
        /\ aggregates.time_summary = EmptyMap
        /\ \A ranking \in DOMAIN aggregates.top_items :
               aggregates.top_items[ranking] = <<>>
        /\ aggregates.statistics_report = EmptyMap
        /\ aggregates.daily_report = EmptyMap
        /\ aggregates.summary_report = EmptyMap

\* the records of the frame with the given value in the column, in input order
RecordsWith(frame, column, v) == SelectSeq(frame, LAMBDA r : r[column] = v)

Occurrences(frame, column, v) == Len(RecordsWith(frame, column, v))

\* the most frequent value of the column; of several, the one seen first
MostFrequentFirstSeen(frame, column) ==
    LET order == FirstSeen(frame, column, {})
        best(k) == \A j \in 1..Len(order) :
                      Occurrences(frame, column, order[j])
                          <= Occurrences(frame, column, order[k])
    IN  order[CHOOSE k \in 1..Len(order) : best(k) /\ \A j \in 1..(k - 1) : ~best(j)]

\* C21 (as claimed): common_protocol of a remote address is the protocol
\* that occurs most often among the records of the address, and among
\* protocols with the same highest count the one that comes first in the
\* input.
C21_CommonProtocolTieIsFirstSeen ==
    astate = "aggregated" =>
        \A k \in 1..Len(aggregates.remote_summary) :
            aggregates.remote_summary[k].common_protocol =
                MostFrequentFirstSeen(
                    RecordsWith(df, "remote_address",
                                aggregates.remote_summary[k].remote_address),
                    "protocol")

\* the fractions n/d and m/e are the same number
SameNumber(x, y) == x[2] # 0 /\ y[2] # 0 /\ x[1] * y[2] = y[1] * x[2]

\* C22 (as claimed): upload_pct of a process is its upload sum over the
\* day's total upload sum times 100, and 0 for every process when the day's
\* total is 0; it is always a number.
C22_UploadShareIsDefined ==
    astate = "aggregated" =>
        \A k \in 1..Len(aggregates.process_summary) :
            LET entry == aggregates.process_summary[k]
                total == sum(Rows(df), "upload_bps")
            IN  /\ entry.upload_pct # NaN
                /\ IF total = 0
                   THEN SameNumber(entry.upload_pct, Frac(0, 1))
                   ELSE SameNumber(entry.upload_pct,
                                   Frac(entry.upload_sum * 100, total))

\* the calls of _get_top_items: the group key and the metric
TopItemCalls ==
    {<<"process_name", ColumnMetric("upload_bps")>>,
     <<"remote_address", ColumnMetric("download_bps")>>,
     <<"local_port", CountMetric>>,
     <<"process_name", TotalTraffic>>,
     <<"remote_address", TrafficPerRow>>}

Min(a, b) == IF a < b THEN a ELSE b

\* the grouped values are one number for a group, and top holds
\* Min(top_n, number of groups) entries that name distinct groups with
\* their metric, largest first, and no group left out has a larger one
IsTopOfGroups(top, grouped, top_n) ==
    /\ grouped.type = "Series"
    /\ grouped.levels = 1
    /\ Len(top) = Min(top_n, Len(grouped.series))
    /\ \A i \in 1..Len(top) : \E k \in 1..Len(grouped.series) : top[i] = grouped.series[k]
    /\ \A i, j \in 1..Len(top) : i # j => top[i].item # top[j].item
    /\ \A i \in 1..(Len(top) - 1) : top[i].value >= top[i + 1].value
    /\ \A k \in 1..Len(grouped.series) :
          (\A i \in 1..Len(top) : top[i].item # grouped.series[k].item)
             => \A i \in 1..Len(top) : grouped.series[k].value <= top[i].value

\* C23 (as claimed): for every non-empty frame, group key and N,
\* _get_top_items returns min(N, number of groups) entries, each a distinct
\* group, in non-increasing order of the metric, none left out being larger;
\* for a column sum, for 'count' and for a custom function.
C23_TopItemsAreTheTopGroups ==
    (astate = "aggregated" /\ df # <<>>) =>
        \A call \in TopItemCalls, top_n \in 1..MaxTopN :
            IsTopOfGroups(_get_top_items(df, call[1], call[2], top_n),
                          Grouped(df, call[1], call[2]), top_n)

-----------------------------------------------------------------------------
(***************************************************************************)
(* Properties of the scanner and of the record list of a day.              *)
(***************************************************************************)

\* C13 (as claimed): in the record list assembled for a day (files in
\* ascending base-time order, blocks in file order) the timestamp never
\* decreases from one record to the next, across a file boundary too.
C13_DayTimestampsNeverDecrease ==
    spc = "assembled" =>
        \A k \in 1..(Len(all_records) - 1) :
            all_records[k].timestamp <= all_records[k + 1].timestamp

\* C16 (as claimed): scan_files returns every file named
\* bandwhich_<date>_<time>.log with a valid date and time exactly once, under
\* the date of its name; each date's list is in ascending base-time order; and
\* no file with another name or with an invalid date or time is returned.
C16_ScanReturnsTheConventionFiles ==
    spc = "scanned" =>
        /\ \A f \in logDir :
               f.name = "bandwhich_D_T.log" =>
                   /\ f.date \in DOMAIN date_files
                   /\ Cardinality({i \in 1..Len(date_files[f.date]) :
                                      date_files[f.date][i] = f}) = 1
        /\ \A d \in DOMAIN date_files :
               /\ \A i \in 1..Len(date_files[d]) :
                      /\ date_files[d][i].date = d
                      /\ date_files[d][i].name = "bandwhich_D_T.log"
               /\ \A i \in 1..(Len(date_files[d]) - 1) :
                      BaseTimeOf(date_files[d][i]) <= BaseTimeOf(date_files[d][i + 1])

-----------------------------------------------------------------------------
(***************************************************************************)
(* Properties of the archiver.                                             *)
(***************************************************************************)
\* the call had files to archive and something went wrong in its try block
ArchiveFailed ==
    /\ archive_call.outcome # "none"
    /\ archive_call.log_files > 0
    /\ \/ archive_call.format \notin {"zip", "tar.gz"}
       \/ archive_call.fault # "none"

-----------------------------------------------------------------------------
(***************************************************************************)
(* Properties of check_report_exists.                                      *)
(***************************************************************************)
\* report_<date>.<ext> and summary_<date>.<ext>, for any extension
ReportOrSummaryOfDate == {"report_json", "report_csv", "summary_json", "summary_csv"}

\* C17 (as claimed): check_report_exists(date, dir) returns true exactly when
\* dir holds a file report_<date>.<ext> or summary_<date>.<ext>, whatever
\* the extension, and false otherwise.
C17_ReportExistsForAnyExtension ==
    [][\A d \in Dates :
          CheckReportExists(d) =>
             exists_call'.value =
                (\E f \in reportDir : f.date = d /\ f.kind \in ReportOrSummaryOfDate)]_vars

-----------------------------------------------------------------------------
(***************************************************************************)
(* Properties of generate_daily_report.                                    *)
(***************************************************************************)
\* C18 (as claimed): a call of generate_daily_report with include_csv=False
\* on a non-empty record list writes report_<date>.json and does not write
\* report_<date>.csv.
C18_NoCsvWhenNotIncluded ==
    (/\ report_call.outcome # "none"
     /\ report_call.records > 0
     /\ ~report_call.include_csv)
    => /\ ReportFile("report_json", report_call.date, report_call.calls) \in reportDir
       /\ ReportFile("report_csv", report_call.date, report_call.calls) \notin reportDir

-----------------------------------------------------------------------------
(***************************************************************************)
(* Properties of process_in_batches.                                       *)
(***************************************************************************)
\* C19 (as claimed): the list process_in_batches returns is as long as its
\* input and holds at position i what process_func returns for items[i], or
\* None when that call raised, whatever the order in which the worker
\* threads finish.
C19_BatchResultsInInputOrder ==
    batch_call.state = "returned" =>
        /\ Len(batch_call.results) = Len(batch_call.items)
        /\ \A i \in 1..Len(batch_call.items) :
              batch_call.results[i] =
                 IF ProcessFuncRaises(batch_call.items[i])
                 THEN "None" ELSE process_func(batch_call.items[i])

-----------------------------------------------------------------------------
(***************************************************************************)
(* Properties of the join at the end of process_daily_logs.                *)
(***************************************************************************)
\* C20: when process_daily_logs has returned the results map and
\* generate_report builds the final summary from it, no submitted day task
\* is still running and no finished task's result is still to be written.
C20_ResultsReadAfterAllTasksEnded ==
    (pc = "idle" /\ run > 0) =>
        \A d \in Dates : futures[d].state \notin {"pending", "done"}

\* a call that submitted two day tasks has returned and written its summary
C20_Witness ==
    /\ pc = "idle"
    /\ run > 0
    /\ Cardinality(DOMAIN date_files) = 2
    /\ \A d \in DOMAIN date_files : futures[d].state = "collected" /\ d \in DOMAIN _results
    /\ Len(summaries) > 0
    /\ summaries[Len(summaries)].run = run

-----------------------------------------------------------------------------
(***************************************************************************)
(* Properties of ProcessingPipeline.run.                                   *)
(***************************************************************************)
\* the calls of the k-th stage's function in this run
CallsOf(k) == {c \in 1..Len(pipeline.calls) : pipeline.calls[c].stage = k}

\* C24: a stage's function is called only when every stage named in its
\* depends_on has completed and its result is in the context; and when run
\* returns, every registered stage has been called exactly once.
C24_StagesRunAfterTheirDependencies ==
    /\ \A c \in 1..Len(pipeline.calls) :
          pipeline.stages[pipeline.calls[c].stage].depends_on
              \subseteq (pipeline.calls[c].executed \cap pipeline.calls[c].context)
    /\ pipeline.state = "returned" =>
          \A k \in 1..Len(pipeline.stages) : Cardinality(CallsOf(k)) = 1

\* run has returned for three stages registered in the reverse of their
\* dependency order
C24_Witness ==
    /\ pipeline.state = "returned"
    /\ Len(pipeline.stages) = 3
    /\ pipeline.stages[1] = [name |-> "stage3", depends_on |-> {"stage1", "stage2"}]
    /\ pipeline.stages[2] = [name |-> "stage2", depends_on |-> {"stage1"}]
    /\ pipeline.stages[3] = [name |-> "stage1", depends_on |-> {}]
    /\ pipeline.calls[1].name = "stage1"
    /\ pipeline.calls[3].name = "stage3"

\* the names the stages called name depend on directly
DependsOn(name) ==
    UNION {pipeline.stages[k].depends_on :
              k \in {i \in 1..Len(pipeline.stages) : pipeline.stages[i].name = name}}

RECURSIVE DependsOnWithin(_, _)
DependsOnWithin(names, steps) ==
    IF steps = 0 THEN names
    ELSE DependsOnWithin(names \cup UNION {DependsOn(n) : n \in names}, steps - 1)

\* some registered stage depends on itself, directly or through other stages
Circular ==
    \E k \in 1..Len(pipeline.stages) :
        pipeline.stages[k].name
            \in DependsOnWithin(DependsOn(pipeline.stages[k].name), MaxStages)

\* C25 (as claimed): run on a pipeline whose stages depend on each other
\* circularly ends by raising an exception.
C25_CircularPipelineRaises ==
    (pipeline.state = "running" /\ Circular) ~> (pipeline.state = "raised")

-----------------------------------------------------------------------------
(***************************************************************************)
(* Properties of the archive round trip.                                   *)
(***************************************************************************)
\* C26 (as claimed): extract_archive on an archive that archive_logs
\* created, zip or tar.gz, returns one path for each archived log file, with
\* the name of that file.
C26_ExtractReturnsTheArchivedFiles ==
    extract_call.outcome = "returned" =>
        extract_call.value = extract_call.members

-----------------------------------------------------------------------------
(***************************************************************************)
(* Properties of a run about the original log files.                       *)
(***************************************************************************)
\* the log files of the date that the step takes out of log_dir
RemovedByStep(d) == {f \in logDir \ logDir' : f.date = d}

C28_FailedDateLeavesNoReport ==
    \A d \in Dates :
        (/\ futures[d].state \in {"done", "collected"}
         /\ ~futures[d].value.success)
        => /\ ~HasFile(reportDir, "report_json", d)
           /\ ~HasFile(reportDir, "summary_json", d)
           /\ ~check_report_exists(d, reportDir)

-----------------------------------------------------------------------------
(***************************************************************************)
(* Properties of the maps of a ParallelProcessor over several calls.       *)
(***************************************************************************)
\* C29 (as claimed): after any number of calls of process_daily_logs on one
\* processor the results and the errors map have no date in common and
\* together hold exactly the dates submitted in the most recent call.
C29_MapsDescribeTheLastCall ==
    (pc = "idle" /\ run > 0) =>
        /\ DOMAIN _results \cap DOMAIN _errors = {}
        /\ DOMAIN _results \cup DOMAIN _errors = DOMAIN date_files

-----------------------------------------------------------------------------
(***************************************************************************)
(* Properties of the dates of the records of a day.  A timestamp is kept   *)
(* as seconds since midnight of the date in the file's name.               *)
(***************************************************************************)
SecondsPerDay == 24 * 60 * SecondsPerMinute

\* the calendar date of a timestamp, in days after the date of the file's name
DaysAfterFileDate(timestamp) == timestamp \div SecondsPerDay

\* C30 (as claimed): every record produced from a log file has a timestamp
\* on the date of the file's name, the day under which it is aggregated,
\* whatever the base time and the number of blocks of the file.
C30_RecordsAreOnTheFilesDate ==
    spc = "assembled" =>
        \A k \in 1..Len(all_records) :
            DaysAfterFileDate(all_records[k].timestamp) = 0

====
